---------------------------- MODULE Spec2Model ----------------------------
(***************************************************************************)
(* DailyNest (src/app.py): a Flask application with a User table, an       *)
(* Activity table, a per-client login session and eight routes.            *)
(*                                                                         *)
(* The model keeps the two tables as sequences in insertion order, the     *)
(* login session of each client (0 = anonymous), the wall clock that       *)
(* stamps created_at, and the last response sent.  Text inputs are TLA+    *)
(* strings; e-mail addresses are sequences of characters so that           *)
(* str.lower() is computed character by character.                         *)
(*                                                                         *)
(* Not modelled: the pass-through text columns of Activity (description,   *)
(* mood, category, location_text), User.bio and User.created_at, CSRF      *)
(* tokens and template rendering.                                          *)
(***************************************************************************)
EXTENDS Integers, Sequences, FiniteSets, TLC

VARIABLES users, activities, session, now, resp, pc, pending

vars == <<users, activities, session, now, resp, pc, pending>>

(***************************************************************************)
(* Bounds of the model.                                                    *)
(***************************************************************************)
MaxUsers == 2
MaxActs == 1
MaxClock == 1

(***************************************************************************)
(* Program constants.                                                      *)
(***************************************************************************)
NameMax == 120
EmailMax == 120
PasswordMin == 6
TitleMax == 200
HomeLimit == 50
ApiLimit == 100

Clients == {"c1", "c2"}
\* A form field that the request does not carry at all.
Missing == "Missing"
\* Python's None for a user row, for a pending form and for a float column.
NoUser == [id |-> 0]
NoForm == [name |-> ""]
NoneF == <<>>
Anonymous == 0

(***************************************************************************)
(* Input alphabets.                                                        *)
(***************************************************************************)
T10 == "0123456789"
T50 == T10 \o T10 \o T10 \o T10 \o T10
LongTitle == T50 \o T50 \o T50 \o T50 \o "x"

EmailInputs ==
  { <<"a", "@", "x", ".", "c">>,
    <<"A", "@", "x", ".", "c">>,
    <<"b", "@", "x", ".", "c">>,
    <<"a", "x", ".", "c">>,
    <<>> }
NameInputs == {"Ann", ""}
PasswordInputs == {"secret1", "abc", ""}
Salts == {1, 2}
TitleInputs == {"Ran 5k", "", LongTitle}
BoolInputs == {Missing, "y", "false"}
CoordInputs ==
  { <<Missing, Missing>>, <<"", "">>, <<"1.5", "">>,
    <<"1.5", "2.5">>, <<"abc", Missing>> }

(***************************************************************************)
(* str.lower() on an e-mail address.                                       *)
(***************************************************************************)
LowerChar(ch) ==
  CASE ch = "A" -> "a"
    [] ch = "B" -> "b"
    [] ch = "X" -> "x"
    [] ch = "C" -> "c"
    [] OTHER -> ch

Lower(s) == [i \in DOMAIN s |-> LowerChar(s[i])]

(***************************************************************************)
(* wtforms validators.                                                     *)
(***************************************************************************)
DataRequired(v) == Len(v) > 0

\* Email(): one "@", a non-empty local part, a domain with an inner dot.
Email(s) ==
  \E i \in DOMAIN s :
    /\ s[i] = "@"
    /\ \A j \in DOMAIN s : s[j] = "@" => j = i
    /\ i > 1
    /\ \E k \in DOMAIN s : k > i + 1 /\ k < Len(s) /\ s[k] = "."

RegisterFormValid(f) ==
  /\ DataRequired(f.name) /\ Len(f.name) <= NameMax
  /\ DataRequired(f.email) /\ Email(f.email) /\ Len(f.email) <= EmailMax
  /\ DataRequired(f.password) /\ Len(f.password) >= PasswordMin
  /\ DataRequired(f.confirm) /\ f.confirm = f.password

LoginFormValid(f) ==
  /\ DataRequired(f.email) /\ Email(f.email)
  /\ DataRequired(f.password)

(***************************************************************************)
(* werkzeug.security: a salted one-way hash.  The digest is an injective   *)
(* encoding of (salt, password); the plaintext is never compared.          *)
(***************************************************************************)
Digest(salt, password) == <<"pbkdf2", salt, password>>

generate_password_hash(password, salt) ==
  [salt |-> salt, digest |-> Digest(salt, password)]

\* Variants of check_password_hash: the salt is ignored; any password passes.
check_password_hash_nosalt(h, password) == h.digest = Digest(0, password)
check_password_hash_any(h, password) == h.digest = h.digest

check_password_hash(h, password) == h.digest = Digest(h.salt, password)

check_password(user, password) ==
  check_password_hash(user.password_hash, password)

(***************************************************************************)
(* Queries on the user table.                                              *)
(***************************************************************************)
\* Variant of UserByEmail: first() is taken before the filter is applied.
UserByEmail_firstRow(us, e) ==
  IF us # <<>> /\ us[1].email = e THEN us[1] ELSE NoUser

\* User.query.filter_by(email=e).first(), NoUser when there is no row
UserByEmail(us, e) ==
  IF \E i \in DOMAIN us : us[i].email = e
  THEN us[CHOOSE i \in DOMAIN us :
            /\ us[i].email = e
            /\ \A j \in DOMAIN us : us[j].email = e => i <= j]
  ELSE NoUser

\* User.query.get(id)
UserById(us, id) ==
  IF \E i \in DOMAIN us : us[i].id = id
  THEN us[CHOOSE i \in DOMAIN us : us[i].id = id]
  ELSE NoUser

\* The unique index on User.email: the insert is refused when the address
\* is already stored.
UniqueEmailOk(us, u) == \A i \in DOMAIN us : us[i].email # u.email

\* Variant of is_authenticated: the session is never consulted.
is_authenticated_always(sess, c) == c \in DOMAIN sess

\* current_user.is_authenticated for the client's session cookie
is_authenticated(sess, c) == sess[c] # Anonymous

NoFlash == ""

Response(op, c, kind, flash, items) ==
  [op |-> op, client |-> c, kind |-> kind, flash |-> flash, items |-> items]

(***************************************************************************)
(* A handler is a function of the database, the sessions, the client and   *)
(* the submitted form.  It returns the database and the sessions it leaves *)
(* behind and the response it sends.                                       *)
(***************************************************************************)
Result(us, acts, sess, r) ==
  [users |-> us, activities |-> acts, session |-> sess, resp |-> r]

Init ==
  /\ users = <<>>
  /\ activities = <<>>
  /\ session = [c \in Clients |-> Anonymous]
  /\ now = 0
  /\ resp = Response("none", "c1", "none", NoFlash, <<>>)
  /\ pc = [c \in Clients |-> "idle"]
  /\ pending = [c \in Clients |-> NoForm]

(***************************************************************************)
(* POST /register, the handler run without interruption.                   *)
(***************************************************************************)
NewUser(us, f, salt) ==
  [id |-> Len(us) + 1,
   name |-> f.name,
   email |-> Lower(f.email),
   password_hash |-> generate_password_hash(f.password, salt)]

register(us, acts, sess, c, f, salt) ==
  IF is_authenticated(sess, c)
  THEN Result(us, acts, sess,
              Response("register", c, "redirect:home", NoFlash, <<>>))
  ELSE IF ~RegisterFormValid(f)
  THEN Result(us, acts, sess,
              Response("register", c, "render:register", NoFlash, <<>>))
  ELSE IF UserByEmail(us, Lower(f.email)) # NoUser
  THEN Result(us, acts, sess,
              Response("register", c, "redirect:register",
                       "Email already registered.", <<>>))
  ELSE IF ~UniqueEmailOk(us, NewUser(us, f, salt))
  THEN Result(us, acts, sess,
              Response("register", c, "error:500", NoFlash, <<>>))
  ELSE Result(Append(us, NewUser(us, f, salt)), acts,
              [sess EXCEPT ![c] = Len(us) + 1],
              Response("register", c, "redirect:home",
                       "Welcome! Account created.", <<>>))

(***************************************************************************)
(* POST /login.                                                            *)
(***************************************************************************)
login(us, acts, sess, c, f) ==
  IF is_authenticated(sess, c)
  THEN Result(us, acts, sess,
              Response("login", c, "redirect:home", NoFlash, <<>>))
  ELSE IF ~LoginFormValid(f)
  THEN Result(us, acts, sess,
              Response("login", c, "render:login", NoFlash, <<>>))
  ELSE LET user == UserByEmail(us, Lower(f.email)) IN
       IF user # NoUser /\ check_password(user, f.password)
       THEN Result(us, acts, [sess EXCEPT ![c] = user.id],
                   Response("login", c, "redirect:home",
                            "Logged in successfully.", <<>>))
       ELSE Result(us, acts, sess,
                   Response("login", c, "render:login",
                            "Invalid credentials.", <<>>))

(***************************************************************************)
(* @login_required with login_manager.login_view = "login": a request      *)
(* without a session is answered by a redirect to the login page and the   *)
(* view function is not entered.                                           *)
(***************************************************************************)
unauthorized(us, acts, sess, op, c) ==
  Result(us, acts, sess,
         Response(op, c, "redirect:login",
                  "Please log in to access this page.", <<>>))

(***************************************************************************)
(* GET /logout.                                                            *)
(***************************************************************************)
logout(us, acts, sess, c) ==
  IF ~is_authenticated(sess, c)
  THEN unauthorized(us, acts, sess, "logout", c)
  ELSE Result(us, acts, [sess EXCEPT ![c] = Anonymous],
              Response("logout", c, "redirect:home", "Logged out.", <<>>))

(***************************************************************************)
(* Activity queries.  Activities are never deleted, so the row with id i   *)
(* is the i-th element of the table and a result is a sequence of ids.     *)
(***************************************************************************)
Min(a, b) == IF a < b THEN a ELSE b

\* order_by(Activity.created_at.desc()).  SQL leaves the order of rows with
\* equal created_at to the engine: tb is the engine's choice, by ascending
\* or by descending id.
\* Variant of Before: ascending instead of descending.
Before_asc(a, b, tb) ==
  \/ a.created_at < b.created_at
  \/ /\ a.created_at = b.created_at
     /\ IF tb = "asc" THEN a.id < b.id ELSE a.id > b.id

Before(a, b, tb) ==
  \/ a.created_at > b.created_at
  \/ /\ a.created_at = b.created_at
     /\ IF tb = "asc" THEN a.id < b.id ELSE a.id > b.id

OrderByCreatedDesc(acts, ids, tb) ==
  LET rank == [i \in ids |->
                 Cardinality({j \in ids : Before(acts[j], acts[i], tb)})]
  IN [k \in 1..Cardinality(ids) |-> CHOOSE i \in ids : rank[i] = k - 1]

\* Variant of Limit: one row too many.
Limit_offbyone(s, n) == SubSeq(s, 1, Min(n + 1, Len(s)))

Limit(s, n) == SubSeq(s, 1, Min(n, Len(s)))

TieBreaks == {"asc", "desc"}

\* Variant of PublicIds: the visibility filter is dropped.
PublicIds_all(acts) == {i \in DOMAIN acts : acts[i].is_public \in BOOLEAN}

\* filter_by(is_public=True)
PublicIds(acts) == {i \in DOMAIN acts : acts[i].is_public = TRUE}

\* filter_by(user_id=uid)
OwnedIds(acts, uid) == {i \in DOMAIN acts : acts[i].user_id = uid}

HomeQuery(acts, tb) ==
  Limit(OrderByCreatedDesc(acts, PublicIds(acts), tb), HomeLimit)

ApiFeedQuery(acts, tb) ==
  Limit(OrderByCreatedDesc(acts, PublicIds(acts), tb), ApiLimit)

MeQuery(acts, uid, tb) == OrderByCreatedDesc(acts, OwnedIds(acts, uid), tb)

ProfileQuery(acts, uid, tb) ==
  OrderByCreatedDesc(acts, OwnedIds(acts, uid) \cap PublicIds(acts), tb)

(***************************************************************************)
(* GET /, GET /api/feed, GET /me, GET /u/<user_id>.                        *)
(***************************************************************************)
home(us, acts, sess, c, tb) ==
  Result(us, acts, sess,
         Response("home", c, "page:home", NoFlash, HomeQuery(acts, tb)))

api_feed(us, acts, sess, c, tb) ==
  Result(us, acts, sess,
         Response("api_feed", c, "json", NoFlash, ApiFeedQuery(acts, tb)))

me(us, acts, sess, c, tb) ==
  IF ~is_authenticated(sess, c)
  THEN unauthorized(us, acts, sess, "me", c)
  ELSE Result(us, acts, sess,
              Response("me", c, "page:me", NoFlash,
                       MeQuery(acts, sess[c], tb)))

profile(us, acts, sess, c, user_id, tb) ==
  IF UserById(us, user_id) = NoUser
  THEN Result(us, acts, sess,
              Response("profile", c, "error:404", NoFlash, <<>>))
  ELSE Result(us, acts, sess,
              Response("profile", c, "page:profile", NoFlash,
                       ProfileQuery(acts, user_id, tb)))

(***************************************************************************)
(* ActivityForm and POST /create.                                          *)
(***************************************************************************)
\* BooleanField.process_formdata: False when the field is not submitted or
\* carries one of the false values, True otherwise.
BooleanData(raw) == ~(raw = Missing \/ raw \in {"false", ""})

\* float(text): <<value in tenths>>, or <<>> when Python raises ValueError.
ValueError == <<>>
Float(text) ==
  CASE text = "1.5" -> <<15>>
    [] text = "2.5" -> <<25>>
    [] OTHER -> ValueError

\* FloatField.process_formdata: a field that is not submitted keeps None;
\* a submitted text is converted by float() and a failed conversion is a
\* field error.
FloatFieldOk(raw) == raw = Missing \/ Float(raw) # ValueError
FloatData(raw) ==
  IF raw = Missing \/ Float(raw) = ValueError THEN NoneF ELSE Float(raw)

ActivityFormValid(f) ==
  /\ DataRequired(f.title) /\ Len(f.title) <= TitleMax
  /\ FloatFieldOk(f.latitude)
  /\ FloatFieldOk(f.longitude)

NewActivity(acts, uid, f, t) ==
  [id |-> Len(acts) + 1,
   user_id |-> uid,
   title |-> f.title,
   is_public |-> BooleanData(f.is_public),
   latitude |-> FloatData(f.latitude),
   longitude |-> FloatData(f.longitude),
   created_at |-> t]

create(us, acts, sess, c, f, t) ==
  IF ~is_authenticated(sess, c)
  THEN unauthorized(us, acts, sess, "create", c)
  ELSE IF ~ActivityFormValid(f)
  THEN Result(us, acts, sess,
              Response("create", c, "render:create", NoFlash, <<>>))
  ELSE Result(us, Append(acts, NewActivity(acts, sess[c], f, t)), sess,
              Response("create", c, "redirect:home", "Activity posted.", <<>>))

(***************************************************************************)
(* The submissions the model draws from: the valid forms over the input    *)
(* alphabets and one invalid form for each validator.                      *)
(***************************************************************************)
GoodEmail == <<"a", "@", "x", ".", "c">>

RegisterForm(n, e, p, q) ==
  [name |-> n, email |-> e, password |-> p, confirm |-> q]

RegisterForms ==
  {RegisterForm("Ann", e, "secret1", "secret1") : e \in EmailInputs}
  \cup
  {RegisterForm(n, GoodEmail, "secret1", "secret1") : n \in NameInputs}
  \cup
  {RegisterForm("Ann", GoodEmail, p, p) : p \in PasswordInputs}
  \cup
  {RegisterForm("Ann", GoodEmail, "secret1", q) : q \in PasswordInputs}

LoginForms ==
  [email : EmailInputs \ {<<>>}, password : {"secret1", "hunter22", ""}]

ActivityForm(t, b, x, y) ==
  [title |-> t, is_public |-> b, latitude |-> x, longitude |-> y]

ActivityForms ==
  {ActivityForm("Ran 5k", b, Missing, Missing) : b \in BoolInputs}
  \cup
  {ActivityForm("Ran 5k", "y", xy[1], xy[2]) : xy \in CoordInputs}
  \cup
  {ActivityForm(t, "y", Missing, Missing) : t \in TitleInputs}

(***************************************************************************)
(* The sequential specification: one browser, each request handled before  *)
(* the next one arrives.                                                   *)
(***************************************************************************)
Actors == {"c1"}

\* the handler's result becomes the state
Handled(r) ==
  /\ users' = r.users
  /\ activities' = r.activities
  /\ session' = r.session
  /\ resp' = r.resp
  /\ UNCHANGED <<now, pc, pending>>

\* the tables of the model hold at most MaxUsers and MaxActs rows
Register == \E c \in Actors, f \in RegisterForms, salt \in Salts :
              LET r == register(users, activities, session, c, f, salt) IN
              Len(r.users) <= MaxUsers /\ Handled(r)
Login == \E c \in Actors, f \in LoginForms :
           Handled(login(users, activities, session, c, f))
Logout == \E c \in Actors : Handled(logout(users, activities, session, c))
Create == \E c \in Actors, f \in ActivityForms :
            LET r == create(users, activities, session, c, f, now) IN
            Len(r.activities) <= MaxActs /\ Handled(r)
Home == \E c \in Actors, tb \in TieBreaks :
          Handled(home(users, activities, session, c, tb))
ApiFeed == \E c \in Actors, tb \in TieBreaks :
             Handled(api_feed(users, activities, session, c, tb))
Me == \E c \in Actors, tb \in TieBreaks :
        Handled(me(users, activities, session, c, tb))
\* /u/<int:user_id> for every stored user and for one id that is not stored
Profile == \E c \in Actors, uid \in 1..(Len(users) + 1), tb \in TieBreaks :
             Handled(profile(users, activities, session, c, uid, tb))

(***************************************************************************)
(* datetime.utcnow() advances between requests.                            *)
(***************************************************************************)
Tick ==
  /\ now < MaxClock
  /\ now' = now + 1
  /\ UNCHANGED <<users, activities, session, resp, pc, pending>>

Next ==
  \/ Register
  \/ Login
  \/ Logout
  \/ Create
  \/ Home
  \/ ApiFeed
  \/ Me
  \/ Profile
  \/ Tick

Spec == Init /\ [][Next]_vars

(***************************************************************************)
(* Two register requests in flight at once.  The handler of lines 81-97    *)
(* is split where another worker can run: after the duplicate lookup of    *)
(* line 87 and before the insert and commit of lines 90-93.  No exception  *)
(* handler surrounds db.session.commit(), so an IntegrityError raised by   *)
(* the unique index leaves the view function and Flask answers 500.        *)
(***************************************************************************)
RegisterLookup(c, f, salt) ==
  /\ pc[c] = "idle"
  /\ UNCHANGED <<users, activities, session, now>>
  /\ IF \/ is_authenticated(session, c)
        \/ ~RegisterFormValid(f)
        \/ UserByEmail(users, Lower(f.email)) # NoUser
     THEN /\ resp' = register(users, activities, session, c, f, salt).resp
          /\ UNCHANGED <<pc, pending>>
     ELSE /\ Len(users) < MaxUsers
          /\ pc' = [pc EXCEPT ![c] = "commit"]
          /\ pending' = [pending EXCEPT ![c] = [form |-> f, salt |-> salt]]
          /\ UNCHANGED resp

RegisterCommit(c) ==
  /\ pc[c] = "commit"
  /\ pc' = [pc EXCEPT ![c] = "idle"]
  /\ pending' = [pending EXCEPT ![c] = NoForm]
  /\ UNCHANGED <<activities, now>>
  /\ LET user == NewUser(users, pending[c].form, pending[c].salt) IN
     IF UniqueEmailOk(users, user)
     THEN /\ users' = Append(users, user)
          /\ session' = [session EXCEPT ![c] = user.id]
          /\ resp' = Response("register", c, "redirect:home",
                              "Welcome! Account created.", <<>>)
     ELSE /\ resp' = Response("register", c, "error:500", NoFlash, <<>>)
          /\ UNCHANGED <<users, session>>

RaceLogout(c) ==
  /\ pc[c] = "idle"
  /\ Handled(logout(users, activities, session, c))

RaceRegisterLookup == \E c \in Clients, f \in RegisterForms, salt \in Salts :
                        RegisterLookup(c, f, salt)
RaceRegisterCommit == \E c \in Clients : RegisterCommit(c)
RaceLogoutAny == \E c \in Clients : RaceLogout(c)

NextRace ==
  \/ RaceRegisterLookup
  \/ RaceRegisterCommit
  \/ RaceLogoutAny

SpecRace == Init /\ [][NextRace]_vars

(***************************************************************************)
(* The feed queries on stores of every size around the two limits.  The    *)
(* stores are the ones the handlers build: ids count up from 1, created_at *)
(* never decreases with the id, every owner is a registered user.          *)
(***************************************************************************)
FeedSmall == 3
FeedOver == 1

FeedUsers ==
  << NewUser(<<>>, [name |-> "Ann", email |-> GoodEmail,
                    password |-> "secret1"], 1),
     NewUser(<<1>>, [name |-> "Ann", email |-> <<"b", "@", "x", ".", "c">>,
                     password |-> "secret1"], 2) >>

Activity(i, uid, pub, t) ==
  [id |-> i, user_id |-> uid, title |-> "Ran 5k", is_public |-> pub,
   latitude |-> NoneF, longitude |-> NoneF, created_at |-> t]

\* every store of at most FeedSmall activities; the clock stands still or
\* advances by one between two creations
SmallStores ==
  UNION {
    {[i \in 1..n |-> Activity(i, own[i], pub[i], tm[i])] :
       own \in [1..n -> 1..2], pub \in [1..n -> BOOLEAN],
       tm \in {t \in [1..n -> 0..n] :
                 \A i \in 1..n : IF i = 1 THEN t[i] = 0
                                  ELSE t[i] - t[i - 1] \in {0, 1}}} :
    n \in 0..FeedSmall }

\* stores of HomeLimit .. HomeLimit + FeedOver and of ApiLimit .. ApiLimit +
\* FeedOver public activities: all public with distinct timestamps, or mixed
\* with private ones and with repeated timestamps
BigSizes ==
  (HomeLimit..(HomeLimit + FeedOver)) \cup (ApiLimit..(ApiLimit + FeedOver))

BigStore(n, mixed, ties) ==
  [i \in 1..(IF mixed THEN n + n \div 10 ELSE n) |->
     Activity(i, 1 + (i % 2),
              ~(mixed /\ i % 11 = 0),
              IF ties THEN i \div 2 ELSE i)]

BigStores == {BigStore(n, m, m) : n \in BigSizes, m \in BOOLEAN}

InitFeed ==
  /\ users = FeedUsers
  /\ \/ /\ activities \in SmallStores
        /\ session \in {[c \in Clients |-> IF c = "c1" THEN u ELSE Anonymous] :
                          u \in {Anonymous, 1, 2}}
     \/ /\ activities \in BigStores
        /\ session = [c \in Clients |-> IF c = "c1" THEN 1 ELSE Anonymous]
  /\ now = IF activities = <<>> THEN 0
           ELSE activities[Len(activities)].created_at
  /\ resp = Response("none", "c1", "none", NoFlash, <<>>)
  /\ pc = [c \in Clients |-> "idle"]
  /\ pending = [c \in Clients |-> NoForm]

NextFeed ==
  \/ Home
  \/ ApiFeed
  \/ Me
  \/ Profile

SpecFeed == InitFeed /\ [][NextFeed]_vars

(***************************************************************************)
(* Vocabulary of the properties.                                           *)
(***************************************************************************)
Dup == "Email already registered."
Welcome == "Welcome! Account created."
LoggedIn == "Logged in successfully."
Invalid == "Invalid credentials."

\* some stored user has the address e
KnownEmail(e) == \E i \in DOMAIN users : users[i].email = e

\* p is the password user u registered with
HasPassword(u, p) ==
  u.password_hash = generate_password_hash(p, u.password_hash.salt)

\* the handler result r leaves both tables and every session as they are
NothingChanged(r) ==
  r.users = users /\ r.activities = activities /\ r.session = session

Views == {"home", "api_feed", "me", "profile"}

Returned(i) == \E k \in DOMAIN resp.items : resp.items[k] = i

(***************************************************************************)
(* C1.  A valid registration whose lowercased address is already stored    *)
(* fails with the duplicate-email error and changes neither table nor the  *)
(* session.                                                                *)
(***************************************************************************)
\* C1 as stated: in every state, every valid registration with a stored
\* address is answered by the duplicate-email error and changes nothing.
C1_DuplicateAlwaysReported ==
  \A c \in Actors, f \in RegisterForms, salt \in Salts :
    (RegisterFormValid(f) /\ KnownEmail(Lower(f.email)))
    => LET r == register(users, activities, session, c, f, salt) IN
       r.resp.flash = Dup /\ NothingChanged(r)

\* C1 amended: a valid registration with a stored address never changes the
\* tables or the session; it is answered by the duplicate-email error when
\* the client has no session, and by a redirect to the feed without any
\* message when the client is logged in.
C1_DuplicateRejected ==
  \A c \in Actors, f \in RegisterForms, salt \in Salts :
    (RegisterFormValid(f) /\ KnownEmail(Lower(f.email)))
    => LET r == register(users, activities, session, c, f, salt) IN
       /\ NothingChanged(r)
       /\ IF session[c] = Anonymous
          THEN r.resp.flash = Dup /\ r.resp.kind = "redirect:register"
          ELSE r.resp.flash = NoFlash /\ r.resp.kind = "redirect:home"

\* the duplicate-email answer to a client without a session
C1_Witness ==
  /\ resp.op = "register"
  /\ resp.flash = Dup
  /\ Len(users) = 1
  /\ session["c1"] = Anonymous

(***************************************************************************)
(* C2.  Two concurrent registrations of one address: one row is stored,    *)
(* the unique index refuses the second writer, and the refused request     *)
(* ends in the duplicate-email error, not in an unrecovered failure.       *)
(***************************************************************************)
NoDuplicateEmails ==
  \A i, j \in DOMAIN users : users[i].email = users[j].email => i = j

\* C2: no two rows share an address and no registration ends in a failure
\* that the handler did not recover.
C2_RaceRecovered ==
  /\ NoDuplicateEmails
  /\ resp.op = "register" =>
       resp.kind \in {"redirect:home", "redirect:register", "render:register"}

(***************************************************************************)
(* C3.  Once register has succeeded with address e and password p, every   *)
(* later login with an address that lowercases like e and with password p  *)
(* succeeds and establishes the session of that user.                      *)
(***************************************************************************)
\* register keeps every stored row, and a successful registration appends
\* a row with the lowercased address and the submitted password
C3_RegisterStores(c, f, salt) ==
  LET r == register(users, activities, session, c, f, salt) IN
  /\ \A i \in DOMAIN users : i \in DOMAIN r.users /\ r.users[i] = users[i]
  /\ r.resp.flash = Welcome =>
       /\ Len(r.users) = Len(users) + 1
       /\ r.users[Len(r.users)].email = Lower(f.email)
       /\ HasPassword(r.users[Len(r.users)], f.password)
       /\ r.session[c] = r.users[Len(r.users)].id

\* g carries the address and the password of the stored row u
Credentials(u, g) == u.email = Lower(g.email) /\ HasPassword(u, g.password)

\* C3 as stated: in every state, a login with the credentials of a stored
\* row ends in the session of that row.
C3_LoginAlwaysSucceeds ==
  \A c \in Actors :
    /\ \A f \in RegisterForms, salt \in Salts : C3_RegisterStores(c, f, salt)
    /\ \A g \in LoginForms, i \in DOMAIN users :
         Credentials(users[i], g)
         => LET r == login(users, activities, session, c, g) IN
            r.session[c] = users[i].id /\ r.resp.kind = "redirect:home"

\* C3 amended: in every state, a login with the credentials of a stored row
\* by a client that is not logged in as another user ends in the session of
\* that row; a client without a session is told that it logged in.
C3_LoginSucceeds ==
  \A c \in Actors :
    /\ \A f \in RegisterForms, salt \in Salts : C3_RegisterStores(c, f, salt)
    /\ \A g \in LoginForms, i \in DOMAIN users :
         (Credentials(users[i], g) /\ session[c] \in {Anonymous, users[i].id})
         => LET r == login(users, activities, session, c, g) IN
            /\ r.session[c] = users[i].id
            /\ r.resp.kind = "redirect:home"
            /\ session[c] = Anonymous => r.resp.flash = LoggedIn

\* the first user logs in again after a second user has registered
C3_Witness ==
  /\ resp.op = "login"
  /\ resp.flash = LoggedIn
  /\ Len(users) = 2
  /\ session["c1"] = 1

(***************************************************************************)
(* C4.  A login with a stored address and another password than the        *)
(* registered one fails with the generic error, establishes no session,    *)
(* and cannot be told from a login with an address nobody has.             *)
(***************************************************************************)
WrongPassword(g) ==
  \E i \in DOMAIN users :
    users[i].email = Lower(g.email) /\ ~HasPassword(users[i], g.password)

\* the same submission with a well-formed address that no user has
UnknownTwins(g) ==
  {h \in LoginForms :
     h.password = g.password /\ Email(h.email) /\ ~KnownEmail(Lower(h.email))}

SessionRequired(c) ==
  {create(users, activities, session, c, f, now) : f \in ActivityForms}
  \cup {me(users, activities, session, c, tb) : tb \in TieBreaks}
  \cup {logout(users, activities, session, c)}

C5_UnauthenticatedRedirects ==
  \A c \in Actors :
    session[c] = Anonymous
    => \A r \in SessionRequired(c) :
         r.resp.kind = "redirect:login" /\ NothingChanged(r)

\* an unauthenticated /create after a logout has cleared the session
C5_Witness ==
  /\ resp.op = "create"
  /\ resp.kind = "redirect:login"
  /\ Len(users) >= 1
  /\ session["c1"] = Anonymous
  /\ activities = <<>>

(***************************************************************************)
(* C6.  A private activity is returned by the /me of its owner and by no   *)
(* other view.                                                             *)
(***************************************************************************)
C6_PrivateOnlyInOwnFeed ==
  (resp.op \in Views /\ resp.kind # "redirect:login") =>
    \A i \in DOMAIN activities :
      activities[i].is_public = FALSE =>
        (Returned(i) <=>
           (resp.op = "me" /\ session[resp.client] = activities[i].user_id))

\* /me of user 1 returns the private activity of user 1 and leaves out the
\* private activity of user 2
C6_Witness ==
  /\ resp.op = "me"
  /\ session["c1"] = 1
  /\ \E i, j \in DOMAIN activities :
       /\ activities[i].is_public = FALSE /\ activities[i].user_id = 1
       /\ activities[j].is_public = FALSE /\ activities[j].user_id = 2
       /\ Returned(i) /\ ~Returned(j)

(***************************************************************************)
(* C7.  Every feed view lists its activities by creation time, newest      *)
(* first.                                                                  *)
(***************************************************************************)
C7_NewestFirst ==
  resp.op \in Views =>
    \A k, l \in DOMAIN resp.items :
      k < l => activities[resp.items[k]].created_at
                 >= activities[resp.items[l]].created_at

\* activities created at T1 < T2 < T3 returned as T3, T2, T1
C7_Witness ==
  /\ resp.op = "home"
  /\ Len(activities) = 3
  /\ activities[1].created_at < activities[2].created_at
  /\ activities[2].created_at < activities[3].created_at
  /\ resp.items = <<3, 2, 1>>

(***************************************************************************)
(* C8.  The feed page returns at most 50 and /api/feed at most 100 public  *)
(* activities; what is cut off is never newer than what is returned; below *)
(* the limit every public activity is returned.                            *)
(***************************************************************************)
PublicStored == {i \in DOMAIN activities : activities[i].is_public = TRUE}

Capped(limit) ==
  /\ Len(resp.items) <= limit
  /\ \A k \in DOMAIN resp.items : resp.items[k] \in PublicStored
  /\ \A i \in PublicStored :
       ~Returned(i) =>
         \A k \in DOMAIN resp.items :
           activities[i].created_at <= activities[resp.items[k]].created_at
  /\ Cardinality(PublicStored) <= limit =>
       \A i \in PublicStored : Returned(i)
  /\ Cardinality(PublicStored) > limit => Len(resp.items) = limit

C8_FeedCapped ==
  /\ resp.op = "home" => Capped(50)
  /\ resp.op = "api_feed" => Capped(100)

\* /api/feed on a store of more than 100 public activities
C8_Witness ==
  /\ resp.op = "api_feed"
  /\ Cardinality(PublicStored) > 100
  /\ Len(resp.items) = 100

(***************************************************************************)
(* C9.  An authenticated create with a valid title and an empty latitude   *)
(* and/or longitude is accepted: one activity is stored for the session's  *)
(* user with the empty coordinate absent, and the answer is a redirect to  *)
(* the feed.                                                               *)
(***************************************************************************)
EmptyCoordinate(f) ==
  /\ f.latitude = "" \/ f.longitude = ""
  /\ f.latitude \in {"", Missing} \/ Float(f.latitude) # ValueError
  /\ f.longitude \in {"", Missing} \/ Float(f.longitude) # ValueError

C9_EmptyCoordinatesAccepted ==
  \A c \in Actors, f \in ActivityForms :
    (/\ session[c] # Anonymous
     /\ DataRequired(f.title) /\ Len(f.title) <= TitleMax
     /\ EmptyCoordinate(f))
    => LET r == create(users, activities, session, c, f, now) IN
       /\ Len(r.activities) = Len(activities) + 1
       /\ r.activities[Len(r.activities)].user_id = session[c]
       /\ f.latitude = "" => r.activities[Len(r.activities)].latitude = NoneF
       /\ f.longitude = "" => r.activities[Len(r.activities)].longitude = NoneF
       /\ r.resp.kind = "redirect:home"

(***************************************************************************)
(* C10.  An activity created by a submission that does not set the         *)
(* visibility flag is stored public and so appears in the public feed.     *)
(***************************************************************************)
C10_DefaultsToPublic ==
  \A c \in Actors, f \in ActivityForms :
    (/\ session[c] # Anonymous
     /\ ActivityFormValid(f)
     /\ f.is_public = Missing)
    => LET r == create(users, activities, session, c, f, now) IN
       /\ Len(r.activities) = Len(activities) + 1
       /\ r.activities[Len(r.activities)].is_public = TRUE
       /\ \A tb \in TieBreaks :
            \E k \in DOMAIN HomeQuery(r.activities, tb) :
              HomeQuery(r.activities, tb)[k] = Len(r.activities)
=============================================================================
